---- MODULE Spec2Model ----
(***************************************************************************)
(* TalentTrack CV ingestion pipeline (POST /api/aicv/):                    *)
(* processUploadedCVsController and the persistence services it calls,     *)
(* over the candidates and applications tables.                            *)
(*                                                                         *)
(* One action per suspension point of the async handler: everything the    *)
(* handler does between two awaits that touch shared state is one step.    *)
(***************************************************************************)
EXTENDS Integers, Sequences, FiniteSets, TLC

VARIABLES
    candidates,        \* table candidates: set of rows
    applications,      \* table applications: set of rows
    nextCandidateId,   \* AUTO_INCREMENT of candidates.candidate_id
    nextApplicationId, \* AUTO_INCREMENT of applications.application_id
    pc,                \* per request: where the handler is suspended
    files,             \* per request: req.files
    vacancyId,         \* per request: req.body.vacancy_id
    cvsText,           \* per request: extracted texts
    chunks,            \* per request: chunkArray(cvsText, 5)
    ci,                \* per request: 1-based index of the chunk being processed
    inflight,          \* per request: prompts of the completion calls not yet returned
    allCandidates,     \* per request: records accumulated over the batches
    validCandidates,   \* per request: allCandidates after the filter
    idx,               \* per request: 1-based index into validCandidates
    candidateId,       \* per request: what createCandidate returned
    candidate,         \* per request: Candidate.findByPk(candidateId)
    created,           \* per request: response accumulator
    response,          \* per request: what was sent to the client
    sent,              \* history: the records the completion service answered with
    answers,           \* history: the kind of each answer of the completion service
    calls,             \* history: prompts of the completion calls issued, in order
    writes,            \* history: number of rows written by the request
    failure,           \* history: why the request ended 500
    dupes,             \* history: ids of the rows whose pair a create was attempted for
    attempts,          \* history: per record processed, what createApplication was given
    order,             \* history: requests in the order their responses were sent
    latest,            \* history: per email, the record last upserted
    upserts,           \* history: number of createCandidate calls of the request
    rlMax,             \* rateLimit: maxRequests of the middleware (-1: not created)
    rlWindow,          \* rateLimit: windowMs of the middleware
    clients,           \* rateLimit: the Map from clientId to {requests, resetTime}
    now,               \* rateLimit: Date.now()
    passed,            \* history: per client, the requests passed to next() in its window
    lastStatus,        \* history: per client, 200 for next() and 429 for the refusal of its last request
    users,             \* table users: set of rows
    nextUserId,        \* AUTO_INCREMENT of users.user_id
    regPc,             \* per registerUser call: where it is suspended
    regData,           \* per registerUser call: userData
    regResult          \* per registerUser call: how it ended

dbVars == <<candidates, applications, nextCandidateId, nextApplicationId>>
batchVars == <<cvsText, chunks, ci, inflight, allCandidates, sent, answers, calls>>
persistVars == <<validCandidates, idx, candidateId, candidate, created>>
vars == <<candidates, applications, nextCandidateId, nextApplicationId, pc, files,
          vacancyId, cvsText, chunks, ci, inflight, allCandidates, validCandidates,
          idx, candidateId, candidate, created, response, sent, answers, calls, writes,
          failure, dupes, attempts, order, latest, upserts, rlMax, rlWindow, clients,
          now, passed, lastStatus, users, nextUserId, regPc, regData, regResult>>
rateVars == <<rlMax, rlWindow, clients, now, passed, lastStatus>>
authVars == <<users, nextUserId, regPc, regData, regResult>>
sideVars == <<rateVars, authVars>>
pipeVars == <<dbVars, pc, files, vacancyId, batchVars, persistVars, response, writes,
              failure, dupes, attempts, order, latest, upserts>>

----------------------------------------------------------------------------
(* Bounds and input domains *)

\* most files in one upload of the batching specification
MaxFiles == 11
\* most files in one upload of the two-upload specifications
MaxFilesTwo == 1
\* most records the completion service returns over one upload (batching)
MaxRecs == 2
\* most records the completion service returns over one upload (two uploads)
MaxRecsTwo == 3
\* most records the completion service returns over one upload (concurrent)
MaxRecsConc == 2
\* most records the completion service returns over one upload (statuses)
MaxRecsStatus == 1
\* most records the completion service returns over one upload (faults)
MaxRecsFault == 2
\* records returned by the batches of one upload in SpecNames
MaxRecsNames == 2
\* the largest maxRequests and windowMs a limiter is built with, and the
\* last instant of the clock
MaxLimit == 2
MaxWindow == 2
MaxNow == 4
\* chunk size of the batcher
ChunkSize == 5

Reqs == {"r1", "r2"}
Emails == {"e1", "e2"}
\* rows of the vacancies table
VacancyTable == {1, 2}
StatusEnum == {"pending", "interview", "offered", "accepted", "rejected"}

Min(a, b) == IF a < b THEN a ELSE b

----------------------------------------------------------------------------
(* JavaScript values *)

\* a multipart form field is a string; an INT column read back is a number
JsString(v) == [type |-> "string", val |-> v]
JsNumber(v) == [type |-> "number", val |-> v]
\* c.application.vacancy_id === vacancyId
StrictEq(a, b) == a.type = b.type /\ a.val = b.val
\* what MySQL stores in an INT column for the value given
ToInt(a) == a.val

\* JSON values the completion can parse to. "" is an absent (undefined) property.
Json(kind, name, email, status, hasCandidates, items) ==
    [kind |-> kind, name |-> name, email |-> email, status |-> status,
     ai_reason |-> "", hasCandidates |-> hasCandidates, items |-> items]
JsonNull == Json("null", "", "", "", FALSE, <<>>)
JsonArray(L) == Json("array", "", "", "", FALSE, L)
JsonWrapper(L) == Json("object", "", "", "", TRUE, L)
JsonRecord(name, email, status) == Json("object", name, email, status, FALSE, <<>>)
\* the record with its ai_reason property set
WithReason(rec, reason) == [rec EXCEPT !.ai_reason = reason]

\* status values that are JSON numbers, not strings ("#5" stands for 5)
NotStrings == {"#5"}

\* String.prototype.toLowerCase on the status strings of the model
ToLowerCase(s) ==
    CASE s = "Approved" -> "approved"
      [] s = "Rejected" -> "rejected"
      [] OTHER -> s

----------------------------------------------------------------------------
(* Batcher and prompt builder *)

\* slice with its end taken as inclusive, one element short
SliceShort(array, from, to) == SubSeq(array, from + 1, Min(to - 1, Len(array)))

\* array.slice(from, to) with 0-based bounds
Slice(array, from, to) == SubSeq(array, from + 1, Min(to, Len(array)))

RECURSIVE ChunkFrom(_, _, _)
\* the loop of chunkArray: for (i = from; i < array.length; i += size)
ChunkFrom(array, size, i) ==
    IF i >= Len(array) THEN <<>>
    ELSE <<Slice(array, i, i + size)>> \o ChunkFrom(array, size, i + size)

\* a batcher that puts every text in one batch
chunkArrayWhole(array, size) == IF array = <<>> THEN <<>> ELSE <<array>>

chunkArray(array, size) == ChunkFrom(array, size, 0)

\* text extracted from one uploaded file (pdf(buffer) then cleanText)
extractTextFromPdf(file) == [cv |-> file.id]

\* the instruction string: the vacancy, the filters and the CVs it embeds
createPrompt(cvs, vacancy, filters) ==
    [cvs |-> cvs, vacancy |-> vacancy, filters |-> filters]

----------------------------------------------------------------------------
(* Extraction client: parsing and normalising one completion *)

\* result.choices[0].message.content: text that is valid JSON or not
Content(valid, value) == [valid |-> valid, value |-> value]

\* a parse that swallows the error and answers an empty array
JSONParseLenient(content) ==
    [threw |-> FALSE,
     value |-> IF content.valid THEN content.value ELSE JsonArray(<<>>)]

\* JSON.parse: throws on text that is not JSON
JSONParse(content) == [threw |-> ~content.valid, value |-> content.value]

\* no unwrapping of {candidates: [...]}
UnwrapNever(parsed) == parsed

\* if (parsedResponse.candidates) parsedResponse = parsedResponse.candidates
Unwrap(parsed) ==
    IF parsed.hasCandidates THEN JsonArray(parsed.items) ELSE parsed

\* lines 525-531: reading .candidates of null throws a TypeError
Normalize(parsed) ==
    IF parsed.kind = "null" THEN [threw |-> TRUE, list |-> <<>>]
    ELSE LET p == Unwrap(parsed)
         IN  [threw |-> FALSE,
              list |-> IF p.kind = "array" THEN p.items ELSE <<p>>]

\* a filter that forgets the email
IsValidNameOnly(c) == c.kind # "null" /\ c.name # ""

\* c && c.name && c.email
IsValid(c) == c.kind # "null" /\ c.name # "" /\ c.email # ""

FilterValid(list) == SelectSeq(list, IsValid)

----------------------------------------------------------------------------
(* Persistence: the candidates and applications tables *)

NullCandidate == [candidate_id |-> 0, email |-> "", name |-> "", notes |-> ""]
NullApplication ==
    [application_id |-> 0, candidate_id |-> 0, vacancy_id |-> JsNumber(0), status |-> "",
     ai_reason |-> ""]

CandidateByEmail(cands, email) ==
    IF \E c \in cands : c.email = email
    THEN CHOOSE c \in cands : c.email = email
    ELSE NullCandidate

\* Candidate.upsert with conflictFields ['email']: the id of the row written
UpsertId(cands, nextId, rec) ==
    IF CandidateByEmail(cands, rec.email) # NullCandidate
    THEN CandidateByEmail(cands, rec.email).candidate_id
    ELSE nextId

\* an upsert that deletes the row holding the email and inserts a new one
UpsertRowsReplace(cands, nextId, rec) ==
    (cands \ {CandidateByEmail(cands, rec.email)})
        \cup {[candidate_id |-> nextId, email |-> rec.email, name |-> rec.name,
                notes |-> ""]}

\* an upsert that leaves the row holding the email as it is
UpsertRowsIgnore(cands, nextId, rec) ==
    IF CandidateByEmail(cands, rec.email) # NullCandidate THEN cands
    ELSE cands \cup {[candidate_id |-> nextId, email |-> rec.email, name |-> rec.name,
                      notes |-> ""]}

\* Candidate.upsert: insert, or update in place the row holding the email;
\* the values written are the fields createCandidate passes, notes is not
\* among them
UpsertRows(cands, nextId, rec) ==
    LET old == CandidateByEmail(cands, rec.email)
        row == [candidate_id |-> UpsertId(cands, nextId, rec),
                email |-> rec.email, name |-> rec.name, notes |-> old.notes]
    IN  (cands \ {old}) \cup {row}

\* Candidate.findByPk
FindByPk(cands, id) ==
    IF \E c \in cands : c.candidate_id = id
    THEN CHOOSE c \in cands : c.candidate_id = id
    ELSE NullCandidate

\* candidateData.status?.toLowerCase throws a TypeError when status is neither
\* absent nor a string: a number has no toLowerCase method
StatusThrows(rec) == rec.status \in NotStrings

\* status: candidateData.status?.toLowerCase() || "pending"
StatusArg(rec) ==
    IF ToLowerCase(rec.status) # "" THEN ToLowerCase(rec.status) ELSE "pending"

\* ai_reason: candidateData.ai_reason || ""
ReasonArg(rec) == IF rec.ai_reason # "" THEN rec.ai_reason ELSE ""

\* the row of the pair in the applications table, if any
PairRows(apps, candId, vacancy) ==
    {a \in apps : a.candidate_id = candId /\ a.vacancy_id = ToInt(vacancy)}

\* Application.create: what the INSERT answers
CreateOutcome(apps, candId, vacancy, status) ==
    IF status \notin StatusEnum THEN "data_error"
    ELSE IF ToInt(vacancy) \notin VacancyTable THEN "fk_error"
    ELSE IF PairRows(apps, candId, vacancy) # {} THEN "unique_error"
    ELSE "ok"

\* the row a successful INSERT adds
NewApplicationRow(appId, candId, vacancy, status, reason) ==
    [application_id |-> appId, candidate_id |-> candId,
     vacancy_id |-> ToInt(vacancy), status |-> status, ai_reason |-> reason]

\* an INSERT that overwrites the row of the pair instead of failing
InsertOrReplace(apps, outcome, row) ==
    IF outcome = "ok" THEN apps \cup {row}
    ELSE IF outcome = "unique_error"
         THEN {IF a.candidate_id = row.candidate_id /\ a.vacancy_id = row.vacancy_id
               THEN [a EXCEPT !.status = row.status, !.ai_reason = row.ai_reason]
               ELSE a : a \in apps}
    ELSE apps

\* the applications table after the INSERT: a failed INSERT changes no row
InsertRow(apps, outcome, row) ==
    IF outcome = "ok" THEN apps \cup {row} ELSE apps

\* the instance Application.create returns: the values passed in, plus the new id
CreatedInstance(appId, candId, vacancy, status, reason) ==
    [application_id |-> appId, candidate_id |-> candId,
     vacancy_id |-> vacancy, status |-> status, ai_reason |-> reason]

\* the instance read from a row: an INT column comes back as a number
InstanceOfRow(row) ==
    [application_id |-> row.application_id, candidate_id |-> row.candidate_id,
     vacancy_id |-> JsNumber(row.vacancy_id), status |-> row.status,
     ai_reason |-> row.ai_reason]

\* Application.findOne({where: {candidate_id, vacancy_id}})
FindOne(apps, candId, vacancy) ==
    IF PairRows(apps, candId, vacancy) # {}
    THEN InstanceOfRow(CHOOSE a \in PairRows(apps, candId, vacancy) : TRUE)
    ELSE NullApplication

----------------------------------------------------------------------------
(* Response deduplication *)

RECURSIVE FindDup(_, _, _, _)
\* created.find(c => c.candidate.email === candidate.email &&
\*                   c.application.vacancy_id === vacancyId), from entry i on:
\* "found", "none", or "throw" when it reads vacancy_id of a null application
FindDup(list, i, cand, vacancy) ==
    IF i > Len(list) THEN "none"
    ELSE IF list[i].candidate.email # cand.email
         THEN FindDup(list, i + 1, cand, vacancy)
    ELSE IF list[i].application = NullApplication THEN "throw"
    ELSE IF StrictEq(list[i].application.vacancy_id, vacancy) THEN "found"
    ELSE FindDup(list, i + 1, cand, vacancy)

----------------------------------------------------------------------------
(* The state after construction: empty tables, no request received *)

NoResponse == [status |-> 0, error |-> "", data |-> <<>>]
\* clients of the rate limiter (req.ip) and their absent Map entry
ClientIds == {"ip1", "ip2"}
NoClient == [requests |-> 0, resetTime |-> -1]
\* registerUser calls and their userData before the call
RegCalls == {"a1", "a2"}
NoUserData == [name |-> "", email |-> "", password |-> "", role_id |-> 0]
NoFailure == [cause |-> "", batch |-> 0]

Init ==
    /\ candidates = {}
    /\ applications = {}
    /\ nextCandidateId = 1
    /\ nextApplicationId = 1
    /\ pc = [r \in Reqs |-> "idle"]
    /\ files = [r \in Reqs |-> <<>>]
    /\ vacancyId = [r \in Reqs |-> JsString(0)]
    /\ cvsText = [r \in Reqs |-> <<>>]
    /\ chunks = [r \in Reqs |-> <<>>]
    /\ ci = [r \in Reqs |-> 0]
    /\ inflight = [r \in Reqs |-> <<>>]
    /\ allCandidates = [r \in Reqs |-> <<>>]
    /\ validCandidates = [r \in Reqs |-> <<>>]
    /\ idx = [r \in Reqs |-> 0]
    /\ candidateId = [r \in Reqs |-> 0]
    /\ candidate = [r \in Reqs |-> NullCandidate]
    /\ created = [r \in Reqs |-> <<>>]
    /\ response = [r \in Reqs |-> NoResponse]
    /\ sent = [r \in Reqs |-> <<>>]
    /\ answers = [r \in Reqs |-> <<>>]
    /\ calls = [r \in Reqs |-> <<>>]
    /\ writes = [r \in Reqs |-> 0]
    /\ failure = [r \in Reqs |-> NoFailure]
    /\ dupes = [r \in Reqs |-> {}]
    /\ attempts = [r \in Reqs |-> <<>>]
    /\ order = <<>>
    /\ latest = [e \in Emails |-> JsonNull]
    /\ upserts = [r \in Reqs |-> 0]
    /\ rlMax = -1
    /\ rlWindow = 0
    /\ clients = [c \in ClientIds |-> NoClient]
    /\ now = 0
    /\ passed = [c \in ClientIds |-> 0]
    /\ lastStatus = [c \in ClientIds |-> 0]
    /\ users = {}
    /\ nextUserId = 1
    /\ regPc = [a \in RegCalls |-> "idle"]
    /\ regData = [a \in RegCalls |-> NoUserData]
    /\ regResult = [a \in RegCalls |-> ""]

----------------------------------------------------------------------------
(* Sending the response ends the handler *)

\* a response after which the handler never finishes
ReplyLost(r, status, error, data) ==
    /\ response' = [response EXCEPT ![r] = [status |-> status, error |-> error, data |-> data]]
    /\ pc' = [pc EXCEPT ![r] = "lost"]
    /\ order' = Append(order, r)

Reply(r, status, error, data) ==
    /\ response' = [response EXCEPT ![r] = [status |-> status, error |-> error, data |-> data]]
    /\ pc' = [pc EXCEPT ![r] = "done"]
    /\ order' = Append(order, r)

\* res.status(201).json({success, message, data: created})
Reply201(r, data) ==
    /\ Reply(r, 201, "", data)
    /\ failure' = failure

\* a catch that echoes the reason of the failure to the client
Reply500Leaky(r, cause) ==
    /\ Reply(r, 500, cause, <<>>)
    /\ failure' = [failure EXCEPT ![r] = [cause |-> cause, batch |-> ci[r]]]

\* the outer catch: res.status(500).json({error: "Error procesando CVs"})
Reply500(r, cause) ==
    /\ Reply(r, 500, "Error procesando CVs", <<>>)
    /\ failure' = [failure EXCEPT ![r] = [cause |-> cause, batch |-> ci[r]]]

----------------------------------------------------------------------------
(* File intake *)

\* req.files for n uploaded files, the one at position bad (if any) unreadable
Upload(n, bad) == [i \in 1..n |-> [id |-> i, readable |-> i # bad]]

\* a check that lets every request through
NoFilesNever(fs) == FALSE

\* !files || files.length === 0
NoFiles(fs) == Len(fs) = 0

\* lines 489-503: the request arrives; without files it is answered 400,
\* otherwise the extraction of the first file is awaited
Receive(r, maxFiles) ==
    /\ pc[r] = "idle"
    /\ \E n \in 0..maxFiles, bad \in 0..maxFiles, v \in VacancyTable :
        /\ bad <= n
        /\ files' = [files EXCEPT ![r] = Upload(n, bad)]
        /\ vacancyId' = [vacancyId EXCEPT ![r] = JsString(v)]
        /\ IF NoFiles(Upload(n, bad))
           THEN /\ Reply(r, 400, "No se recibieron archivos", <<>>)
                /\ failure' = failure
           ELSE /\ pc' = [pc EXCEPT ![r] = "extract"]
                /\ UNCHANGED <<response, order, failure>>
    /\ UNCHANGED <<dbVars, batchVars, persistVars, writes, dupes, attempts>>
    /\ UNCHANGED <<latest, upserts, sideVars>>

\* only one upload at a time
Alone(r) == \A q \in Reqs \ {r} : pc[q] \in {"idle", "done"}

\* lines 511-512: the prompt of the i-th chunk
ChunkPrompt(parts, i) == createPrompt(parts[i], "title", "filter")

\* a loop that stops after its first chunk
MoreChunksNever(parts, i) == FALSE

\* line 511: the for-of loop has a chunk after the i-th
MoreChunks(parts, i) == i < Len(parts)

\* an extraction loop that only looks at the first file
FirstReadable(fs) == fs = <<>> \/ fs[1].readable

\* lines 502-505: pdf(buffer) resolves for every file of the list
AllReadable(fs) == \A i \in 1..Len(fs) : fs[i].readable

\* a call that is not awaited stays in flight
ReturnedNever(flight) == flight

\* line 514: the awaited call has returned
Returned(flight) == Tail(flight)

\* lines 500-520: every file is extracted in turn (the first unreadable one
\* aborts the request); the texts are chunked, the first prompt is built and
\* its completion call issued (with no chunk the loops have nothing to do
\* and 201 is sent with an empty list)
Extract(r) ==
    /\ pc[r] = "extract"
    /\ LET texts == [i \in 1..Len(files[r]) |-> extractTextFromPdf(files[r][i])]
           parts == chunkArray(texts, ChunkSize)
       IN  IF ~AllReadable(files[r])
           THEN /\ Reply500(r, "extract")
                /\ UNCHANGED batchVars
           ELSE IF parts = <<>>
           THEN /\ Reply201(r, <<>>)
                /\ cvsText' = [cvsText EXCEPT ![r] = texts]
                /\ UNCHANGED <<chunks, ci, inflight, allCandidates, sent, answers, calls>>
           ELSE /\ cvsText' = [cvsText EXCEPT ![r] = texts]
                /\ chunks' = [chunks EXCEPT ![r] = parts]
                /\ ci' = [ci EXCEPT ![r] = 1]
                /\ inflight' = [inflight EXCEPT ![r] = <<ChunkPrompt(parts, 1)>>]
                /\ calls' = [calls EXCEPT ![r] = Append(@, ChunkPrompt(parts, 1))]
                /\ pc' = [pc EXCEPT ![r] = "await"]
                /\ UNCHANGED <<allCandidates, sent, answers, response, order, failure>>
    /\ UNCHANGED <<dbVars, files, vacancyId, persistVars, writes, dupes, attempts>>
    /\ UNCHANGED <<latest, upserts, sideVars>>

----------------------------------------------------------------------------
(* What the completion service can answer *)

\* sequences over S of length at most k
Lists(S, k) == UNION {[1..m -> S] : m \in 0..k}

\* candidate-shaped records: null, without name, without email, and complete
\* ones with each email and with no status, a status outside the ENUM of the
\* applications table ("approved", which the prompt asks for) and one inside
Records ==
    {JsonNull, JsonRecord("", "e1", "rejected"), JsonRecord("n1", "", "rejected")}
    \cup {JsonRecord("n1", e, s) : e \in Emails, s \in {"", "approved", "rejected"}}

\* the complete records that carry a status
StatusRecords == {c \in Records : IsValid(c) /\ c.status # ""}

\* complete records of one email with each kind of status (absent, a
\* capitalised member of the ENUM, outside the ENUM, a number) and with or
\* without ai_reason
ReasonRecords ==
    {WithReason(JsonRecord("n1", "e1", s), a) :
        s \in {"", "Rejected", "approved"} \cup NotStrings, a \in {"", "a1"}}

\* complete records of one email, with a status outside and inside the ENUM
FaultRecords == {JsonRecord("n1", "e1", s) : s \in {"approved", "rejected"}}

\* complete records of two emails, one of them under two names; the name stands for
\* every field createCandidate maps (phone, date_of_birth, occupation, ...)
NameRecords ==
    {JsonRecord("n1", "e1", "rejected"), JsonRecord("n2", "e1", "rejected"),
     JsonRecord("n1", "e2", "rejected")}

\* the notes a recruiter saves
NoteTexts == {"t1"}

\* an answer: the call fails ("error"), the text is no JSON ("invalid"), or
\* the text is JSON: null, or the records of list as a bare array, wrapped
\* in {candidates: [...]}, or as the single object itself
Answers(Kinds, Recs, k) ==
    {[kind |-> s, list |-> <<>>] : s \in Kinds \cap {"error", "invalid", "null"}}
    \cup {[kind |-> s, list |-> L] : s \in Kinds \cap {"array", "wrapped"},
                                     L \in Lists(Recs, k)}
    \cup {[kind |-> s, list |-> <<c>>] : s \in Kinds \cap {"single"},
                                       c \in {x \in Recs : k >= 1 /\ x.kind = "object"}}

AllKinds == {"error", "invalid", "null", "array", "wrapped", "single"}
\* the kinds of the two-upload specifications: a failed call, text that is
\* no JSON, and a bare array
ArrayKinds == {"error", "invalid", "array"}

\* the text of an answer
ContentOf(a) ==
    CASE a.kind = "array" -> Content(TRUE, JsonArray(a.list))
      [] a.kind = "wrapped" -> Content(TRUE, JsonWrapper(a.list))
      [] a.kind = "single" -> Content(TRUE, a.list[1])
      [] a.kind = "null" -> Content(TRUE, JsonNull)
      [] OTHER -> Content(FALSE, JsonNull)

----------------------------------------------------------------------------
(* The batch loop *)

\* the lists of the batches joined in the reverse order
ConcatFront(all, list) == list \o all

\* line 533: allCandidates = allCandidates.concat(candidates)
Concat(all, list) == all \o list

\* lines 511-552: the completion of the current chunk returns. A failed call,
\* unparseable text or a null value ends the request with 500. Otherwise the
\* records are appended; with chunks left the next prompt is built and its
\* call issued, and after the last chunk the records are filtered and the
\* persistence loop starts (or, with no valid record, 201 is sent).
CompletionReturn(r, Kinds, Recs, maxRecs) ==
    /\ pc[r] = "await"
    /\ \E a \in Answers(Kinds, Recs, maxRecs - Len(allCandidates[r])) :
        /\ answers' = [answers EXCEPT ![r] = Append(@, a.kind)]
        /\ LET parsed == JSONParse(ContentOf(a))
               norm == Normalize(parsed.value)
               all == Concat(allCandidates[r], norm.list)
               valid == FilterValid(all)
               prompt == ChunkPrompt(chunks[r], ci[r] + 1)
           IN  IF a.kind = "error" \/ parsed.threw \/ norm.threw
               THEN /\ Reply500(r, IF a.kind = "error" THEN "service"
                                   ELSE IF parsed.threw THEN "json" ELSE "normalize")
                    /\ inflight' = [inflight EXCEPT ![r] = Returned(@)]
                    /\ UNCHANGED <<ci, allCandidates, sent, calls, validCandidates, idx>>
               ELSE /\ allCandidates' = [allCandidates EXCEPT ![r] = all]
                    /\ sent' = [sent EXCEPT ![r] = @ \o a.list]
                    /\ IF MoreChunks(chunks[r], ci[r])
                       THEN /\ ci' = [ci EXCEPT ![r] = @ + 1]
                            /\ inflight' = [inflight EXCEPT ![r] = Append(Returned(@), prompt)]
                            /\ calls' = [calls EXCEPT ![r] = Append(@, prompt)]
                            /\ UNCHANGED <<pc, response, order, failure, validCandidates, idx>>
                       ELSE /\ inflight' = [inflight EXCEPT ![r] = Returned(@)]
                            /\ validCandidates' = [validCandidates EXCEPT ![r] = valid]
                            /\ UNCHANGED <<ci, calls>>
                            /\ IF valid = <<>>
                               THEN /\ Reply201(r, <<>>)
                                    /\ idx' = idx
                               ELSE /\ pc' = [pc EXCEPT ![r] = "upsert"]
                                    /\ idx' = [idx EXCEPT ![r] = 1]
                                    /\ UNCHANGED <<response, order, failure>>
    /\ UNCHANGED <<dbVars, files, vacancyId, cvsText, chunks, candidateId, candidate,
                   created, writes, dupes, attempts>>
    /\ UNCHANGED <<latest, upserts, sideVars>>

----------------------------------------------------------------------------
(* The persistence loop *)

\* lines 555-566: createCandidate upserts the current record by email
Upsert(r) ==
    /\ pc[r] = "upsert"
    /\ LET rec == validCandidates[r][idx[r]]
           id == UpsertId(candidates, nextCandidateId, rec)
       IN  /\ candidates' = UpsertRows(candidates, nextCandidateId, rec)
           /\ nextCandidateId' = IF id = nextCandidateId THEN nextCandidateId + 1
                                 ELSE nextCandidateId
           /\ candidateId' = [candidateId EXCEPT ![r] = id]
    /\ writes' = [writes EXCEPT ![r] = @ + 1]
    /\ upserts' = [upserts EXCEPT ![r] = @ + 1]
    /\ latest' = [latest EXCEPT ![validCandidates[r][idx[r]].email] =
                                    validCandidates[r][idx[r]]]
    /\ pc' = [pc EXCEPT ![r] = "findByPk"]
    /\ UNCHANGED <<applications, nextApplicationId, files, vacancyId, batchVars,
                   validCandidates, idx, candidate, created, response, failure, dupes,
                   attempts, order, sideVars>>

\* lines 568-577: the candidate is read back and createApplication is called
\* (a null candidate makes both the try block and its catch throw)
FindCandidate(r) ==
    /\ pc[r] = "findByPk"
    /\ LET found == FindByPk(candidates, candidateId[r])
       IN  /\ candidate' = [candidate EXCEPT ![r] = found]
           /\ IF found = NullCandidate
              THEN Reply500(r, "candidate")
              ELSE /\ pc' = [pc EXCEPT ![r] = "create"]
                   /\ UNCHANGED <<response, order, failure>>
    /\ UNCHANGED <<dbVars, files, vacancyId, batchVars, validCandidates, idx,
                   candidateId, created, writes, dupes, attempts>>
    /\ UNCHANGED <<latest, upserts, sideVars>>

\* lines 587-603: the entry is appended unless created.find finds an earlier
\* one (which throws on an entry whose application is null); then the loop
\* goes on to the next record, or 201 is sent after the last
Push(r, application) ==
    LET dup == FindDup(created[r], 1, candidate[r], vacancyId[r])
        list == IF dup = "none"
                THEN Append(created[r], [candidate |-> candidate[r],
                                         application |-> application])
                ELSE created[r]
    IN  IF dup = "throw"
        THEN /\ Reply500(r, "dedup")
             /\ UNCHANGED <<created, idx>>
        ELSE /\ created' = [created EXCEPT ![r] = list]
             /\ IF idx[r] < Len(validCandidates[r])
                THEN /\ idx' = [idx EXCEPT ![r] = @ + 1]
                     /\ pc' = [pc EXCEPT ![r] = "upsert"]
                     /\ UNCHANGED <<response, order, failure>>
                ELSE /\ Reply201(r, list)
                     /\ idx' = idx

\* lines 570-578: the arguments of createApplication are evaluated and its
\* INSERT answers; any failure, a TypeError of the status expression
\* included, is caught and the fallback read is issued
CreateApp(r) ==
    /\ pc[r] = "create"
    /\ LET rec == validCandidates[r][idx[r]]
           status == StatusArg(rec)
           reason == ReasonArg(rec)
           outcome == IF StatusThrows(rec) THEN "type_error"
                      ELSE CreateOutcome(applications, candidate[r].candidate_id,
                                         vacancyId[r], status)
           rows == PairRows(applications, candidate[r].candidate_id, vacancyId[r])
           row == NewApplicationRow(nextApplicationId, candidate[r].candidate_id,
                                    vacancyId[r], status, reason)
       IN  /\ dupes' = [dupes EXCEPT ![r] =
                          IF outcome = "type_error" THEN @
                          ELSE @ \cup {a.application_id : a \in rows}]
           /\ attempts' = [attempts EXCEPT ![r] =
                             Append(@, [called |-> outcome # "type_error",
                                        status |-> IF outcome = "type_error" THEN ""
                                                   ELSE status,
                                        ai_reason |-> reason,
                                        outcome |-> outcome])]
           /\ applications' = IF outcome = "type_error" THEN applications
                              ELSE InsertRow(applications, outcome, row)
           /\ IF outcome = "ok"
              THEN /\ nextApplicationId' = nextApplicationId + 1
                   /\ writes' = [writes EXCEPT ![r] = @ + 1]
                   /\ Push(r, CreatedInstance(nextApplicationId, candidate[r].candidate_id,
                                              vacancyId[r], status, reason))
              ELSE /\ pc' = [pc EXCEPT ![r] = "fallback"]
                   /\ UNCHANGED <<nextApplicationId, writes, created, idx,
                                  response, order, failure>>
    /\ UNCHANGED <<candidates, nextCandidateId, files, vacancyId, batchVars,
                   validCandidates, candidateId, candidate>>
    /\ UNCHANGED <<latest, upserts, sideVars>>

\* lines 578-585: Application.findOne answers with the row of the pair or null
Fallback(r) ==
    /\ pc[r] = "fallback"
    /\ Push(r, FindOne(applications, candidate[r].candidate_id, vacancyId[r]))
    /\ UNCHANGED <<dbVars, files, vacancyId, batchVars, validCandidates, candidateId,
                   candidate, writes, dupes, attempts>>
    /\ UNCHANGED <<latest, upserts, sideVars>>

----------------------------------------------------------------------------
(* Database failures: a query of the handler rejects *)

\* a failure that undoes the rows written so far
UpsertFailsRollback(r) ==
    /\ pc[r] = "upsert"
    /\ Reply500(r, "upsert")
    /\ candidates' = {}
    /\ applications' = {}
    /\ UNCHANGED <<nextCandidateId, nextApplicationId, files, vacancyId, batchVars,
                   persistVars, writes, dupes, attempts, latest, upserts, sideVars>>

\* lines 555-566: createCandidate rejects (it logs and rethrows); the
\* rejection reaches the outer catch
UpsertFails(r) ==
    /\ pc[r] = "upsert"
    /\ Reply500(r, "upsert")
    /\ UNCHANGED <<dbVars, files, vacancyId, batchVars, persistVars, writes, dupes,
                   attempts>>
    /\ UNCHANGED <<latest, upserts, sideVars>>

\* line 568: Candidate.findByPk rejects
FindCandidateFails(r) ==
    /\ pc[r] = "findByPk"
    /\ Reply500(r, "lookup")
    /\ UNCHANGED <<dbVars, files, vacancyId, batchVars, persistVars, writes, dupes,
                   attempts>>
    /\ UNCHANGED <<latest, upserts, sideVars>>

\* lines 579-584: Application.findOne rejects inside the catch block, which
\* nothing but the outer catch handles
FallbackFails(r) ==
    /\ pc[r] = "fallback"
    /\ Reply500(r, "findOne")
    /\ UNCHANGED <<dbVars, files, vacancyId, batchVars, persistVars, writes, dupes,
                   attempts>>
    /\ UNCHANGED <<latest, upserts, sideVars>>

----------------------------------------------------------------------------
(* Specifications *)

\* one upload of up to MaxFiles files: the batch loop over several chunks
NextBatch ==
    \/ Receive("r1", MaxFiles)
    \/ Extract("r1")
    \/ CompletionReturn("r1", AllKinds, Records, MaxRecs)
    \/ Upsert("r1")
    \/ FindCandidate("r1")
    \/ CreateApp("r1")
    \/ Fallback("r1")

SpecBatch == Init /\ [][NextBatch]_vars

\* two uploads, the second received after the first was answered
Next ==
    \E r \in Reqs :
        \/ Alone(r) /\ Receive(r, MaxFilesTwo)
        \/ Extract(r)
        \/ CompletionReturn(r, ArrayKinds, StatusRecords, MaxRecsTwo)
        \/ Upsert(r)
        \/ FindCandidate(r)
        \/ CreateApp(r)
        \/ Fallback(r)

Spec == Init /\ [][Next]_vars

\* two uploads handled concurrently
NextConc ==
    \E r \in Reqs :
        \/ Receive(r, MaxFilesTwo)
        \/ Extract(r)
        \/ CompletionReturn(r, ArrayKinds, StatusRecords, MaxRecsConc)
        \/ Upsert(r)
        \/ FindCandidate(r)
        \/ CreateApp(r)
        \/ Fallback(r)

SpecConc == Init /\ [][NextConc]_vars

\* two uploads one after the other, over records of every kind of status
NextStatus ==
    \E r \in Reqs :
        \/ Alone(r) /\ Receive(r, MaxFilesTwo)
        \/ Extract(r)
        \/ CompletionReturn(r, ArrayKinds, ReasonRecords, MaxRecsStatus)
        \/ Upsert(r)
        \/ FindCandidate(r)
        \/ CreateApp(r)
        \/ Fallback(r)

SpecStatus == Init /\ [][NextStatus]_vars

\* two uploads one after the other, with every failure the handler can meet
NextFault ==
    \E r \in Reqs :
        \/ Alone(r) /\ Receive(r, MaxFilesTwo)
        \/ Extract(r)
        \/ CompletionReturn(r, AllKinds, FaultRecords, MaxRecsFault)
        \/ Upsert(r)
        \/ UpsertFails(r)
        \/ FindCandidate(r)
        \/ FindCandidateFails(r)
        \/ CreateApp(r)
        \/ Fallback(r)
        \/ FallbackFails(r)

SpecFault == Init /\ [][NextFault]_vars

\* CandidatesController.js 511-528: PUT /:id/notes updates the notes of the
\* candidate with the given id and nothing else (an id without a row changes
\* nothing and is answered 404)
UpdateNotes(id, notes) ==
    /\ \E c \in candidates : c.candidate_id = id /\ c.notes # notes
    /\ candidates' = {IF c.candidate_id = id THEN [c EXCEPT !.notes = notes] ELSE c :
                         c \in candidates}
    /\ UNCHANGED <<applications, nextCandidateId, nextApplicationId, pc, files,
                   vacancyId, batchVars, persistVars, response, writes, failure, dupes,
                   attempts, order, latest, upserts, sideVars>>

\* two uploads one after the other over records that differ in their name;
\* between the uploads recruiters save notes on the stored candidates
NextNames ==
    \/ \E r \in Reqs :
           \/ Alone(r) /\ Receive(r, MaxFilesTwo)
           \/ Extract(r)
           \/ CompletionReturn(r, {"array"}, NameRecords, MaxRecsNames)
           \/ Upsert(r)
           \/ FindCandidate(r)
           \/ CreateApp(r)
           \/ Fallback(r)
    \/ /\ \A r \in Reqs : pc[r] \in {"idle", "done"}
       /\ \E c \in candidates, t \in NoteTexts : UpdateNotes(c.candidate_id, t)

SpecNames == Init /\ [][NextNames]_vars

\* the steps of the handler after the request was received: each is the
\* continuation of an awaited operation that returned or failed
Handle(r) ==
    \/ Extract(r)
    \/ CompletionReturn(r, AllKinds, FaultRecords, MaxRecsFault)
    \/ Upsert(r)
    \/ UpsertFails(r)
    \/ FindCandidate(r)
    \/ FindCandidateFails(r)
    \/ CreateApp(r)
    \/ Fallback(r)
    \/ FallbackFails(r)

\* one upload with every failure the handler can meet
NextLive ==
    \/ Receive("r1", MaxFiles)
    \/ Handle("r1")

\* every awaited operation eventually returns or fails, and the event loop
\* then runs the continuation of the handler
SpecLive == Init /\ [][NextLive]_vars /\ WF_vars(Handle("r1"))

----------------------------------------------------------------------------
(* The rate limiter of authMiddleware.js *)

\* line 124: rateLimit(maxRequests, windowMs) builds the middleware with an
\* empty Map of clients
CreateLimiter(maxRequests, windowMs) ==
    /\ rlMax = -1
    /\ rlMax' = maxRequests
    /\ rlWindow' = windowMs
    /\ clients' = [c \in ClientIds |-> NoClient]
    /\ UNCHANGED <<now, passed, lastStatus, authVars, pipeVars>>

\* Date.now() advances
Tick ==
    /\ now < MaxNow
    /\ now' = now + 1
    /\ UNCHANGED <<rlMax, rlWindow, clients, passed, lastStatus, authVars, pipeVars>>

\* lines 127-153: a request of clientId passes the middleware. passed counts
\* the requests handed to next() since the client's window began, lastStatus
\* is 200 for next() and 429 for the refusal
RateRequest(clientId) ==
    /\ rlMax # -1
    /\ LET client == clients[clientId]
       IN  IF client = NoClient \/ now > client.resetTime
           THEN /\ clients' = [clients EXCEPT ![clientId] =
                                   [requests |-> 1, resetTime |-> now + rlWindow]]
                /\ passed' = [passed EXCEPT ![clientId] = 1]
                /\ lastStatus' = [lastStatus EXCEPT ![clientId] = 200]
           ELSE IF client.requests >= rlMax
           THEN /\ lastStatus' = [lastStatus EXCEPT ![clientId] = 429]
                /\ UNCHANGED <<clients, passed>>
           ELSE /\ clients' = [clients EXCEPT ![clientId].requests = @ + 1]
                /\ passed' = [passed EXCEPT ![clientId] = @ + 1]
                /\ lastStatus' = [lastStatus EXCEPT ![clientId] = 200]
    /\ UNCHANGED <<rlMax, rlWindow, now, authVars, pipeVars>>

NextRate ==
    \/ \E m \in 0..MaxLimit, w \in 1..MaxWindow : CreateLimiter(m, w)
    \/ Tick
    \/ \E c \in ClientIds : RateRequest(c)

SpecRate == Init /\ [][NextRate]_vars

----------------------------------------------------------------------------
(* Registration: AuthServices.registerUser *)

\* the registration data a client sends; role_id 0 stands for an absent one
UserNames == {"u1", "u2"}
Passwords == {"p1", "p2"}
RoleIds == {0, 2}

\* User.hashPassword: the argon2id hash of the password (the salt is left out)
HashPassword(password) ==
    CASE password = "p1" -> "h1"
      [] password = "p2" -> "h2"
      [] OTHER -> "h0"

\* UserServices.getUserByEmail: User.findOne({where: {email}})
GetUserByEmail(us, email) == {u \in us : u.email = email}

\* UserServices.createUserUpsert: User.upsert inserts the row, or updates in
\* place the row that holds the unique email
CreateUserUpsert(us, nextId, data) ==
    IF GetUserByEmail(us, data.email) # {}
    THEN {IF u.email = data.email
          THEN [u EXCEPT !.name = data.name, !.password = data.password,
                         !.role_id = data.role_id]
          ELSE u : u \in us}
    ELSE us \cup {[user_id |-> nextId, name |-> data.name, email |-> data.email,
                    password |-> data.password, role_id |-> data.role_id]}

\* lines 21-26: registerUser is called and awaits getUserByEmail
RegisterUser(a, userData) ==
    /\ regPc[a] = "idle"
    /\ regData' = [regData EXCEPT ![a] = userData]
    /\ regPc' = [regPc EXCEPT ![a] = "check"]
    /\ UNCHANGED <<users, nextUserId, regResult, rateVars, pipeVars>>

\* lines 26-32: the lookup returns; an existing user ends the call with the
\* error, otherwise the hashing of the password is awaited
CheckExisting(a) ==
    /\ regPc[a] = "check"
    /\ IF GetUserByEmail(users, regData[a].email) # {}
       THEN /\ regResult' = [regResult EXCEPT ![a] = "User already exists with this email"]
            /\ regPc' = [regPc EXCEPT ![a] = "done"]
       ELSE /\ regPc' = [regPc EXCEPT ![a] = "hash"]
            /\ UNCHANGED regResult
    /\ UNCHANGED <<users, nextUserId, regData, rateVars, pipeVars>>

\* lines 32-40: the hash is there and createUserUpsert is called with it and
\* with role_id || 1
Hashed(a) ==
    /\ regPc[a] = "hash"
    /\ regData' = [regData EXCEPT ![a].password = HashPassword(@),
                                  ![a].role_id = IF @ # 0 THEN @ ELSE 1]
    /\ regPc' = [regPc EXCEPT ![a] = "upsert"]
    /\ UNCHANGED <<users, nextUserId, regResult, rateVars, pipeVars>>

\* lines 35-45: the upsert returns and the user is returned to the caller
Upserted(a) ==
    /\ regPc[a] = "upsert"
    /\ users' = CreateUserUpsert(users, nextUserId, regData[a])
    /\ nextUserId' = IF GetUserByEmail(users, regData[a].email) # {} THEN nextUserId
                      ELSE nextUserId + 1
    /\ regResult' = [regResult EXCEPT ![a] = "ok"]
    /\ regPc' = [regPc EXCEPT ![a] = "done"]
    /\ UNCHANGED <<regData, rateVars, pipeVars>>

\* two registerUser calls that may overlap
NextAuth ==
    \E a \in RegCalls :
        \/ \E n \in UserNames, e \in Emails, p \in Passwords, ro \in RoleIds :
               RegisterUser(a, [name |-> n, email |-> e, password |-> p, role_id |-> ro])
        \/ CheckExisting(a)
        \/ Hashed(a)
        \/ Upserted(a)

SpecAuth == Init /\ [][NextAuth]_vars

----------------------------------------------------------------------------
(* Properties *)

Done201(r) == pc[r] = "done" /\ response[r].status = 201

\* a record with a non-empty name and a non-empty email
Complete(c) == c.kind = "object" /\ c.name # "" /\ c.email # ""

\* the entries of the response of r for email e
EntriesFor(r, e) ==
    {i \in 1..Len(response[r].data) : response[r].data[i].candidate.email = e}

RECURSIVE Flatten(_)
Flatten(ss) == IF ss = <<>> THEN <<>> ELSE Head(ss) \o Flatten(Tail(ss))

CeilDiv(n, k) == (n + k - 1) \div k

\* C1: of two uploads answered 201 one after the other for the same vacancy,
\* each with an entry for the same email, the entry of the second carries an
\* application, with the identifier of the application of the first's entry,
\* and the pair has no other application row.
C1_SecondUploadReusesApplication ==
    \A a, b \in Reqs :
        (order = <<a, b>> /\ Done201(a) /\ Done201(b) /\ vacancyId[a] = vacancyId[b]) =>
            \A i \in 1..Len(response[a].data), j \in 1..Len(response[b].data) :
                LET x == response[a].data[i]
                    y == response[b].data[j]
                IN  x.candidate.email = y.candidate.email =>
                        /\ y.application # NullApplication
                        /\ y.application.application_id = x.application.application_id
                        /\ \A row \in PairRows(applications, x.candidate.candidate_id,
                                               vacancyId[a]) :
                               row.application_id = x.application.application_id

\* C2: no two application rows share (candidate_id, vacancy_id); and a
\* request that attempted to create an application for a pair that had a row
\* ends 201 with that row in its response.
C2_OneApplicationPerPair ==
    /\ \A x, y \in applications :
           (x.candidate_id = y.candidate_id /\ x.vacancy_id = y.vacancy_id) => x = y
    /\ \A r \in Reqs :
           (pc[r] = "done" /\ dupes[r] # {}) =>
               /\ response[r].status = 201
               /\ \A id \in dupes[r] :
                      \E i \in 1..Len(response[r].data) :
                          response[r].data[i].application.application_id = id

\* C3: no two entries of a 201 response share (candidate.email,
\* application.vacancy_id): there is one entry per email.
C3_NoDuplicateEntries ==
    \A r \in Reqs :
        Done201(r) =>
            \A i, j \in 1..Len(response[r].data) :
                LET x == response[r].data[i]
                    y == response[r].data[j]
                IN  (i < j /\ x.candidate.email = y.candidate.email) =>
                        ToInt(x.application.vacancy_id) # ToInt(y.application.vacancy_id)

\* the completion of batch k of a request of n batches was no JSON
InvalidAtBatch(r, k, n) ==
    Len(chunks[r]) = n /\ Len(answers[r]) >= k /\ answers[r][k] = "invalid"

C6_IncompleteRecordsNeverPersist ==
    /\ \A row \in candidates :
           /\ row.email # "" /\ row.name # ""
           /\ \E r \in Reqs : \E i \in 1..Len(sent[r]) :
                  Complete(sent[r][i]) /\ sent[r][i].email = row.email
    /\ \A r \in Reqs :
           /\ \A i \in 1..Len(validCandidates[r]) : Complete(validCandidates[r][i])
           /\ writes[r] <= 2 * Len(SelectSeq(sent[r], Complete))
           /\ Len(response[r].data) <= Len(SelectSeq(sent[r], Complete))
           /\ \A i \in 1..Len(created[r]) :
                  /\ created[r][i].candidate.name # ""
                  /\ \E j \in 1..Len(sent[r]) :
                         Complete(sent[r][j])
                         /\ sent[r][j].email = created[r][i].candidate.email
           /\ \A i \in 1..Len(response[r].data) :
                  response[r].data[i] \in {created[r][k] : k \in 1..Len(created[r])}

C6_Witness ==
    \E r \in Reqs :
        /\ Done201(r)
        /\ sent[r] = <<JsonRecord("", "e1", "rejected"), JsonRecord("n1", "e2", "rejected")>>
        /\ {c.email : c \in candidates} = {"e2"}
        /\ Len(response[r].data) = 1

\* C7: two uploads answered 201 one after the other for different
\* vacancies, each with an entry for the same email, leave one candidate row
\* for the email and two application rows of that candidate, one per vacancy.
C7_OneCandidateTwoApplications ==
    \A a, b \in Reqs :
        (order = <<a, b>> /\ Done201(a) /\ Done201(b) /\ vacancyId[a] # vacancyId[b]) =>
            \A e \in Emails :
                (EntriesFor(a, e) # {} /\ EntriesFor(b, e) # {}) =>
                    /\ Cardinality({c \in candidates : c.email = e}) = 1
                    /\ LET id == CandidateByEmail(candidates, e).candidate_id
                           rows == {x \in applications : x.candidate_id = id}
                       IN  /\ Cardinality(rows) = 2
                           /\ {x.vacancy_id : x \in rows} =
                                  {ToInt(vacancyId[a]), ToInt(vacancyId[b])}

\* the request got a complete record with email e
Yielded(r, e) == \E i \in 1..Len(validCandidates[r]) : validCandidates[r][i].email = e

\* C8: two concurrent uploads for the same vacancy that each got a complete
\* record with the same email end 201 both, with one candidate row, one
\* application row for the pair, and that row's identifier in both responses.
C8_ConcurrentUploadsShareApplication ==
    \A a, b \in Reqs :
        (a # b /\ pc[a] = "done" /\ pc[b] = "done" /\ vacancyId[a] = vacancyId[b]) =>
            \A e \in Emails :
                (Yielded(a, e) /\ Yielded(b, e)) =>
                    /\ response[a].status = 201 /\ response[b].status = 201
                    /\ Cardinality({c \in candidates : c.email = e}) = 1
                    /\ LET id == CandidateByEmail(candidates, e).candidate_id
                           rows == PairRows(applications, id, vacancyId[a])
                       IN  /\ Cardinality(rows) = 1
                           /\ \A r \in {a, b} :
                                  /\ EntriesFor(r, e) # {}
                                  /\ \A i \in EntriesFor(r, e) :
                                         \A row \in rows :
                                             response[r].data[i].application.application_id
                                                 = row.application_id

\* C9: the chunks are ceil(N/5) in number, their concatenation is the list
\* of texts, every chunk but the last has 5 texts and the last has 1 to 5.
C9_ChunksPartitionTexts ==
    \A r \in Reqs :
        /\ Len(chunks[r]) = CeilDiv(Len(cvsText[r]), 5)
        /\ Flatten(chunks[r]) = cvsText[r]
        /\ \A k \in 1..(Len(chunks[r]) - 1) : Len(chunks[r][k]) = 5
        /\ chunks[r] # <<>> => Len(chunks[r][Len(chunks[r])]) \in 1..5

C9_Witness ==
    \E r \in Reqs :
        /\ Len(cvsText[r]) = 11
        /\ Len(chunks[r]) = 3
        /\ Len(chunks[r][3]) = 1

\* C10: whether the records come as a bare array, wrapped in
\* {candidates: [...]} or as the single object, the internal list is the list
\* of the records answered, and such an answer never fails the request in
\* parsing or normalising.
C10_ShapesYieldSameList ==
    \A r \in Reqs :
        /\ allCandidates[r] = sent[r]
        /\ failure[r].cause \in {"json", "normalize"} =>
               answers[r][Len(answers[r])] \notin {"array", "wrapped", "single"}

C10_Witness ==
    \E r \in Reqs :
        /\ answers[r] = <<"wrapped", "single", "array">>
        /\ Len(allCandidates[r]) = 2
        /\ Done201(r)

\* C11: in every 201 response of an upload for vacancy V, every entry carries
\* a non-null application that is a stored row of the entry's candidate and
\* of vacancy V.
C11_EveryEntryHasStoredApplication ==
    \A r \in Reqs :
        Done201(r) =>
            \A i \in 1..Len(response[r].data) :
                LET x == response[r].data[i]
                IN  /\ x.application # NullApplication
                    /\ \E row \in applications :
                           /\ row.application_id = x.application.application_id
                           /\ row.candidate_id = x.candidate.candidate_id
                           /\ row.vacancy_id = ToInt(vacancyId[r])

\* C12: a createApplication that fails for a reason other than the
\* uniqueness of (candidate_id, vacancy_id) is not followed by the fallback
\* read of the duplicate handling, and its request ends with status 500.
C12_OtherCreateFailuresEnd500 ==
    \A r \in Reqs :
        \A k \in 1..Len(attempts[r]) :
            attempts[r][k].outcome \in {"data_error", "fk_error"} =>
                /\ ~(pc[r] = "fallback" /\ k = Len(attempts[r]))
                /\ pc[r] = "done" => response[r].status = 500

\* C13: for every valid record processed, createApplication is called with
\* the record's status when it is present (compared in lower case, as the
\* status is lower-cased on the way), with "pending" when the status is
\* absent or no string, and with the record's ai_reason ("" when absent); and
\* an upload whose records all have an absent or non-string status is
\* answered 201.
C13_StatusAndReasonOfAttempt ==
    \A r \in Reqs :
        /\ \A k \in 1..Len(attempts[r]) :
               LET rec == validCandidates[r][k]
                   a == attempts[r][k]
               IN  /\ a.called
                   /\ a.status = IF rec.status \in {""} \cup NotStrings THEN "pending"
                                 ELSE ToLowerCase(rec.status)
                   /\ a.ai_reason = rec.ai_reason
        /\ (/\ pc[r] = "done"
            /\ validCandidates[r] # <<>>
            /\ \A k \in 1..Len(validCandidates[r]) :
                   validCandidates[r][k].status \in {""} \cup NotStrings)
               => response[r].status = 201

\* C14: an application row, once stored, stays in the table with the same
\* status and ai_reason through every step of every upload, also of an upload
\* that yields a record for its pair with another status or ai_reason.
C14_ExistingApplicationNotMutated ==
    [][\A row \in applications : row \in applications']_vars

C14_Witness ==
    \E r \in Reqs :
        /\ Done201(r)
        /\ \E k \in 1..Len(attempts[r]) :
               /\ attempts[r][k].outcome = "unique_error"
               /\ \E row \in PairRows(applications, candidate[r].candidate_id, vacancyId[r]) :
                      /\ row.application_id \in dupes[r]
                      /\ row.status # attempts[r][k].status
                      /\ row.ai_reason # attempts[r][k].ai_reason

\* C15: a request received without files is answered 400 with an error
\* body and nothing else was done for it: no text extracted, no completion
\* call issued, no row read or written; and only such a request is
\* answered 400.
C15_NoFilesAnswered400 ==
    \A r \in Reqs :
        /\ (pc[r] # "idle" /\ files[r] = <<>>) =>
               /\ pc[r] = "done"
               /\ response[r].status = 400
               /\ response[r].error # ""
               /\ response[r].data = <<>>
               /\ cvsText[r] = <<>> /\ chunks[r] = <<>>
               /\ calls[r] = <<>> /\ answers[r] = <<>>
               /\ writes[r] = 0 /\ attempts[r] = <<>>
               /\ candidateId[r] = 0 /\ candidate[r] = NullCandidate
        /\ response[r].status = 400 => files[r] = <<>>

C15_Witness ==
    \E r \in Reqs :
        /\ pc[r] = "done"
        /\ files[r] = <<>>
        /\ response[r] = [status |-> 400, error |-> "No se recibieron archivos", data |-> <<>>]

\* the failures the handler can meet
Causes ==
    {"extract", "service", "json", "normalize", "upsert", "lookup", "candidate",
     "findOne", "dedup"}

\* C16: every failure inside the handler (extraction, completion call,
\* parsing, upsert, lookup, fallback read, response dedup) is answered 500
\* with the one fixed body: two requests that failed for different reasons
\* got identical responses.
C16_OneFixedErrorBody ==
    /\ \A r \in Reqs :
           /\ failure[r].cause # "" =>
                  /\ failure[r].cause \in Causes
                  /\ pc[r] = "done"
                  /\ response[r] = [status |-> 500, error |-> "Error procesando CVs",
                                    data |-> <<>>]
           /\ response[r].status = 500 => failure[r].cause # ""
    /\ \A a, b \in Reqs :
           (failure[a].cause # "" /\ failure[b].cause # "") => response[a] = response[b]

C16_Witness ==
    \E a, b \in Reqs :
        /\ failure[a].cause = "json"
        /\ failure[b].cause = "upsert"
        /\ response[a].status = 500
        /\ response[a] = response[b]

\* C17: once the extraction step of an upload with an unreadable file, at
\* whatever position, has run, the request has ended with status 500 and has
\* issued no completion call and written no row.
C17_ExtractionFailureAborts ==
    \A r \in Reqs :
        (/\ pc[r] \notin {"idle", "extract"}
         /\ \E i \in 1..Len(files[r]) : ~files[r][i].readable) =>
            /\ pc[r] = "done"
            /\ response[r].status = 500
            /\ failure[r].cause = "extract"
            /\ calls[r] = <<>> /\ inflight[r] = <<>> /\ answers[r] = <<>>
            /\ writes[r] = 0 /\ attempts[r] = <<>>

C17_Witness ==
    \E r \in Reqs :
        /\ Len(files[r]) = 11
        /\ files[r][1].readable
        /\ ~files[r][7].readable
        /\ response[r].status = 500
        /\ calls[r] = <<>>

C19_OneCallInFlight ==
    \A r \in Reqs :
        /\ Len(inflight[r]) <= 1
        /\ inflight[r] # <<>> =>
               /\ pc[r] = "await"
               /\ inflight[r][1] = calls[r][Len(calls[r])]
               /\ Len(answers[r]) = Len(calls[r]) - 1
        /\ inflight[r] = <<>> => Len(answers[r]) = Len(calls[r])

C19_Witness ==
    \E r \in Reqs :
        /\ ci[r] = 3
        /\ Len(inflight[r]) = 1
        /\ Len(answers[r]) = 2
        /\ Len(allCandidates[r]) = 2

\* C20: a 201 response has at most as many entries as files were uploaded.
C20_EntriesAtMostFiles ==
    \A r \in Reqs :
        Done201(r) => Len(response[r].data) <= Len(files[r])

\* the create attempts of the request that inserted a row
OkAttempts(r) == {i \in 1..Len(attempts[r]) : attempts[r][i].outcome = "ok"}

\* C21: when the candidate upsert or the candidate lookup of the k-th valid
\* record fails, the request ends with status 500, the candidate rows and
\* the application rows written for the first k-1 records are in storage,
\* and the request made no write besides them (and, for a failed lookup, the
\* upsert of the k-th record): nothing was written for a later record.
C21_PartialWritesRemain ==
    \A r \in Reqs :
        failure[r].cause \in {"upsert", "lookup"} =>
            /\ pc[r] = "done"
            /\ response[r].status = 500
            /\ \A i \in 1..(idx[r] - 1) :
                   \E c \in candidates :
                       /\ c.email = validCandidates[r][i].email
                       /\ attempts[r][i].outcome = "ok" =>
                              PairRows(applications, c.candidate_id, vacancyId[r]) # {}
            /\ Len(attempts[r]) = idx[r] - 1
            /\ upserts[r] = IF failure[r].cause = "upsert" THEN idx[r] - 1 ELSE idx[r]
            /\ writes[r] = upserts[r] + Cardinality(OkAttempts(r))

C21_Witness ==
    \E r \in Reqs :
        /\ failure[r].cause = "upsert"
        /\ response[r].status = 500
        /\ idx[r] = 2
        /\ attempts[r][1].outcome = "ok"
        /\ writes[r] = 2
        /\ candidates # {} /\ applications # {}

\* C22: every valid record of an upload answered 201 triggers exactly one
\* candidate upsert and exactly one application-create attempt, so the
\* number of upserts and of create attempts equals the number of valid
\* records, whatever the number of entries in the response.
C22_OneUpsertOneCreatePerRecord ==
    \A r \in Reqs :
        Done201(r) =>
            /\ upserts[r] = Len(validCandidates[r])
            /\ Len(attempts[r]) = Len(validCandidates[r])
            /\ \A k \in 1..Len(attempts[r]) : attempts[r][k].called

\* the emails of the candidates of the entries answered to r
EntryEmails(r) ==
    [i \in 1..Len(response[r].data) |-> response[r].data[i].candidate.email]

\* the emails of the valid records the batches of r returned, in the order
\* of the batches and, within a batch, of its returned list
ReturnedEmails(r) ==
    LET v == FilterValid(sent[r]) IN [i \in 1..Len(v) |-> v[i].email]

RECURSIVE IsSubseq(_, _)
IsSubseq(s, t) ==
    IF s = <<>> THEN TRUE
    ELSE IF t = <<>> THEN FALSE
    ELSE IF Head(s) = Head(t) THEN IsSubseq(Tail(s), Tail(t))
    ELSE IsSubseq(s, Tail(t))

\* C24: the entries of a 201 response are in processing order: they are the
\* candidates of a subsequence of the valid records taken batch after batch
\* in the order of the uploaded files and, within a batch, in the order of
\* its returned list; so of two entries for different emails the one whose
\* email was returned first comes first.
C24_EntriesInProcessingOrder ==
    \A r \in Reqs :
        Done201(r) =>
            /\ IsSubseq(EntryEmails(r), ReturnedEmails(r))
            /\ \A i, j \in 1..Len(response[r].data) :
                   (i < j /\ EntryEmails(r)[i] # EntryEmails(r)[j]) =>
                       \E m, n \in 1..Len(ReturnedEmails(r)) :
                           /\ m < n
                           /\ ReturnedEmails(r)[m] = EntryEmails(r)[i]
                           /\ ReturnedEmails(r)[n] = EntryEmails(r)[j]
                           /\ \A q \in 1..(m - 1) :
                                  ReturnedEmails(r)[q] # EntryEmails(r)[i]

C24_Witness ==
    \E r \in Reqs :
        /\ Done201(r)
        /\ answers[r] = <<"single", "single">>
        /\ EntryEmails(r) = <<"e2", "e1">>
        /\ ReturnedEmails(r) = <<"e2", "e1">>

\* C28: an upload with uploaded files whose text extractions, completion
\* calls with their JSON parsing, candidate upserts and lookups and fallback
\* reads all succeeded is answered 201: a failed application create whose
\* fallback read finds no row does not make a later record fail.
C28_FailedCreateDoesNotFailLaterRecord ==
    \A r \in Reqs :
        (/\ pc[r] = "done"
         /\ files[r] # <<>>
         /\ failure[r].cause \notin {"extract", "service", "json", "normalize",
                                     "upsert", "lookup", "candidate", "findOne"})
            => response[r].status = 201

\* C23: storage never holds two candidate rows with one email, and the
\* mapped fields of every stored row are those of the valid record with the
\* row's email that was processed last, whatever uploads came before.
C23_OneRowPerEmailLatestWins ==
    /\ \A x, y \in candidates : x.email = y.email => x = y
    /\ \A c \in candidates :
           /\ latest[c.email] # JsonNull
           /\ c.name = latest[c.email].name

C23_Witness ==
    \E c \in candidates :
        /\ c.email = "e1" /\ c.name = "n2"
        /\ Cardinality(candidates) = 1
        /\ order = <<"r1", "r2">>
        /\ Done201("r1") /\ Done201("r2")
        /\ validCandidates["r1"] = <<JsonRecord("n1", "e1", "rejected")>>
        /\ validCandidates["r2"] = <<JsonRecord("n2", "e1", "rejected")>>

\* C27: when a 201 response is sent, every candidate object in it equals,
\* in the fields an upload writes (candidate_id, email, name), the candidate
\* row stored at that moment; so an entry for an email two records of the
\* upload share shows the values of the stored row.
C27_EntryCandidateIsStoredRow ==
    [][\A r \in Reqs :
           (pc[r] # "done" /\ pc'[r] = "done" /\ response'[r].status = 201) =>
               \A i \in 1..Len(response'[r].data) :
                   LET x == response'[r].data[i].candidate
                   IN  \E c \in candidates' :
                           /\ c.candidate_id = x.candidate_id
                           /\ c.email = x.email
                           /\ c.name = x.name]_vars

\* C29: a step of the ingestion keeps the candidate_id, the email and the
\* notes of every stored candidate row, changes the other fields of a row
\* only when it is the upsert of a record with the row's email, and keeps
\* every stored application row as it is.
C29_IngestKeepsIdNotesAndOtherRows ==
    [][(<<pc, ci>>' # <<pc, ci>>) =>
          /\ \A c \in candidates :
                 \E d \in candidates' :
                     /\ d.candidate_id = c.candidate_id
                     /\ d.email = c.email
                     /\ d.notes = c.notes
                     /\ d # c => \E r \in Reqs :
                                    /\ pc[r] = "upsert"
                                    /\ pc'[r] = "findByPk"
                                    /\ validCandidates[r][idx[r]].email = c.email
          /\ applications \subseteq applications']_vars

C29_Witness ==
    /\ order = <<"r1", "r2">>
    /\ Done201("r1") /\ Done201("r2")
    /\ Len(response["r1"].data) = 2
    /\ response["r1"].data[1].candidate =
           [candidate_id |-> 1, email |-> "e1", name |-> "n1", notes |-> ""]
    /\ validCandidates["r2"] = <<JsonRecord("n2", "e1", "rejected")>>
    /\ candidates = {[candidate_id |-> 1, email |-> "e1", name |-> "n2", notes |-> "t1"],
                     [candidate_id |-> 2, email |-> "e2", name |-> "n1", notes |-> "t1"]}
    /\ applications # {}

\* how far the handler of r has come: intake, extraction, the batches in
\* order, then for each valid record upsert, lookup, create and fallback read
Rank(r) ==
    CASE pc[r] = "idle" -> 0
      [] pc[r] = "extract" -> 1
      [] pc[r] = "await" -> 1 + ci[r]
      [] pc[r] = "upsert" -> 100 + 4 * idx[r]
      [] pc[r] = "findByPk" -> 101 + 4 * idx[r]
      [] pc[r] = "create" -> 102 + 4 * idx[r]
      [] pc[r] = "fallback" -> 103 + 4 * idx[r]
      [] pc[r] = "done" -> 100000
      [] OTHER -> -1

\* C25: provided every awaited operation returns or fails, every received
\* upload request is eventually answered, exactly once and with status 201,
\* 400 or 500; an answer is never changed; and every step of the handler
\* moves it forward (no extraction, batch, upsert, lookup or create is
\* repeated, and the fallback read follows a failed create at most once).
C25_EveryRequestAnsweredOnce ==
    /\ [](\A r \in Reqs :
             /\ Cardinality({i \in 1..Len(order) : order[i] = r})
                    = IF pc[r] = "done" THEN 1 ELSE 0
             /\ pc[r] = "done" => response[r].status \in {201, 400, 500}
             /\ pc[r] # "done" => response[r] = NoResponse)
    /\ [][\A r \in Reqs :
             /\ pc[r] = "done" => (pc'[r] = "done" /\ response'[r] = response[r])
             /\ <<pc[r], ci[r], idx[r]>>' # <<pc[r], ci[r], idx[r]>> => Rank(r)' > Rank(r)
             /\ pc'[r] = "fallback" => (pc[r] = "create" /\ Len(attempts'[r]) = idx[r])]_vars
    /\ \A r \in Reqs : (pc[r] # "idle") ~> (pc[r] = "done")

C25_Witness ==
    /\ order = <<"r1">>
    /\ pc["r1"] = "done"
    /\ response["r1"].status = 201
    /\ Len(calls["r1"]) = 3
    /\ Len(attempts["r1"]) = 2
    /\ attempts["r1"][1].outcome = "ok"
    /\ attempts["r1"][2].outcome = "unique_error"

\* C26: for each client of a limiter rateLimit(maxRequests, windowMs), at
\* most maxRequests requests are handed to next() between the start of a
\* window and its reset.
C26_AtMostMaxRequestsPerWindow ==
    \A c \in ClientIds : rlMax # -1 => passed[c] <= rlMax

\* C30: registerUser never modifies a stored user (its name, password hash
\* and role_id stay as they are), and of two registrations with the same
\* email at most one succeeds.
C30_RegisterNeverModifiesUser ==
    [][/\ \A u \in users : u \in users'
       /\ \A a, b \in RegCalls :
              (a # b /\ regData'[a].email = regData'[b].email) =>
                  ~(regResult'[a] = "ok" /\ regResult'[b] = "ok")]_vars

====
